---- MODULE Spec2Model ----
(***************************************************************************)
(* Model of the personal-finance ledger: Transaction (models.py),          *)
(* DataManager (data_manager.py), SummaryManager (summary_manager.py),     *)
(* SettingsManager (settings_manager.py) and the record operations of      *)
(* PersonalFinanceApp (main.py).                                           *)
(*                                                                         *)
(* Amounts are integers standing for the Python numbers; text that the     *)
(* code formats or parses (ids, dates, month keys) is a sequence of        *)
(* one-character strings, so that strftime, strptime and slicing are       *)
(* computed.  A file is a record: absent, malformed text (not JSON, which  *)
(* includes an empty or truncated file), or the JSON value it holds.       *)
(***************************************************************************)
EXTENDS Integers, Sequences, FiniteSets, TLC

VARIABLES
    live,          \* the managers constructed so far
    now,           \* index of the current instant of datetime.now()
    transactions,  \* DataManager.transactions
    peer,          \* transactions of a second DataManager on the same file
    txFile,        \* transactions.json
    summary_data,  \* SummaryManager.summary_data
    sumFile,       \* monthly_summary.json
    settings,      \* SettingsManager.settings
    setFile,       \* settings.json
    ret,           \* the last call: name, arguments, outcome
    writes         \* number of times the last call opened its file for writing

vars == <<live, now, transactions, peer, txFile, summary_data, sumFile,
          settings, setFile, ret, writes>>

----------------------------------------------------------------------------
(* Bounds *)

MaxTx == 2
NumInstants == 2
MaxSum == 700
MaxRebuild == 2

----------------------------------------------------------------------------
(* Text and time *)

Digits == <<"0", "1", "2", "3", "4", "5", "6", "7", "8", "9">>

\* the character of a digit and its value
DigitOf == [c \in {Digits[i] : i \in 1..10} |-> CHOOSE v \in 0..9 : Digits[v + 1] = c]

IsDigit(c) == c \in DOMAIN DigitOf

DigitVal(c) == DigitOf[c]

Pow10(k) == IF k = 0 THEN 1
            ELSE IF k = 1 THEN 10
            ELSE IF k = 2 THEN 100
            ELSE IF k = 3 THEN 1000
            ELSE IF k = 4 THEN 10000
            ELSE 100000

\* %Y, %m, %d, %H, %M, %S, %f of strftime: decimal, zero-padded to width w
Pad(n, w) == [i \in 1..w |-> Digits[((n \div Pow10(w - i)) % 10) + 1]]

\* the value of a run of digits
NumVal(s) == IF Len(s) = 1 THEN DigitVal(s[1])
             ELSE IF Len(s) = 2 THEN 10 * DigitVal(s[1]) + DigitVal(s[2])
             ELSE 1000 * DigitVal(s[1]) + 100 * DigitVal(s[2])
                  + 10 * DigitVal(s[3]) + DigitVal(s[4])

\* the instants datetime.now() can return, in increasing order
Instant(i) == [Y |-> 2024, m |-> 7 + (i \div 2), d |-> 1 + 4 * (i % 2),
               H |-> 10, M |-> 30, S |-> 5 * i, f |-> 1000 * i]

\* strftime("%Y-%m-%d %H:%M:%S")
FormatDate(t) == Pad(t.Y, 4) \o <<"-">> \o Pad(t.m, 2) \o <<"-">> \o Pad(t.d, 2)
                 \o <<" ">> \o Pad(t.H, 2) \o <<":">> \o Pad(t.M, 2)
                 \o <<":">> \o Pad(t.S, 2)

\* strftime("%Y%m%d%H%M%S%f")
_generate_id(t) == Pad(t.Y, 4) \o Pad(t.m, 2) \o Pad(t.d, 2) \o Pad(t.H, 2)
                   \o Pad(t.M, 2) \o Pad(t.S, 2) \o Pad(t.f, 6)

----------------------------------------------------------------------------
(* models.py *)

Transaction(amount, category, description, transaction_type, t) ==
    [id |-> _generate_id(t),
     amount |-> amount,
     category |-> category,
     description |-> description,
     transaction_type |-> transaction_type,
     date |-> FormatDate(t)]

\* a JSON object is the sequence of its <<key, value>> members
to_dict(tr) ==
    << <<"id", tr.id>>,
       <<"amount", tr.amount>>,
       <<"category", tr.category>>,
       <<"description", tr.description>>,
       <<"transaction_type", tr.transaction_type>>,
       <<"date", tr.date>> >>

HasKey(data, k) == \E i \in 1..Len(data) : data[i][1] = k

\* data[k]; of a repeated key the JSON parser keeps the last
Lookup(data, k) ==
    data[CHOOSE i \in 1..Len(data) :
            /\ data[i][1] = k
            /\ \A j \in (i + 1)..Len(data) : data[j][1] # k][2]

FromDictKeys == {"amount", "category", "description", "transaction_type", "id", "date"}

\* from_dict raises KeyError
from_dict_raises(data) == \E k \in FromDictKeys : ~HasKey(data, k)

\* from_dict that keeps the id and date the constructor generated
from_dict_fresh(data, t) ==
    Transaction(Lookup(data, "amount"), Lookup(data, "category"),
                Lookup(data, "description"), Lookup(data, "transaction_type"), t)

\* from_dict: the constructor runs at instant t, then id and date are overwritten
from_dict(data, t) ==
    [Transaction(Lookup(data, "amount"), Lookup(data, "category"),
                 Lookup(data, "description"), Lookup(data, "transaction_type"), t)
        EXCEPT !.id = Lookup(data, "id"), !.date = Lookup(data, "date")]

----------------------------------------------------------------------------
(* Files *)

Absent == [kind |-> "absent"]
Malformed == [kind |-> "malformed"]
Json(v) == [kind |-> "json", value |-> v]

\* outcome of open(filename, 'w') followed by json.dump: written; open
\* raised (file untouched); dump raised after open truncated the file
IoOutcomes == {"ok", "open_error", "write_error"}

\* a write whose text never reaches the file that open truncated
WriteFile_lost(old, v, io) == IF io = "open_error" THEN old ELSE Malformed

WriteFile(old, v, io) == IF io = "ok" THEN Json(v)
                         ELSE IF io = "open_error" THEN old
                         ELSE Malformed

\* a call that returned val, and a call that let an exception escape
Returned(op, args, val) == [op |-> op, args |-> args, val |-> val, raised |-> FALSE]
Raised(op, args) == [op |-> op, args |-> args, val |-> "None", raised |-> TRUE]

----------------------------------------------------------------------------
(* data_manager.py *)

Amounts == {300, 1000}
Types == {"income", "expense"}

\* the category the user enters
CategoryOf(transaction_type) == IF transaction_type = "income" THEN "Salary" ELSE "Food"

\* a transaction recorded by an earlier run of the program
StoredTx == Transaction(500, "Gift", "old", "income",
                        [Y |-> 2023, m |-> 12, d |-> 31, H |-> 23, M |-> 59,
                         S |-> 59, f |-> 999999])

\* what transactions.json can hold when the program starts; the last is
\* well-formed JSON of the wrong shape: an object without its "date" member
InitialTxFiles ==
    {Absent, Malformed, Json(<<>>), Json(<<to_dict(StoredTx)>>),
     Json(<<SubSeq(to_dict(StoredTx), 1, 5)>>)}

\* json.load raises JSONDecodeError, or open raises FileNotFoundError
Unreadable(file) == file.kind \in {"absent", "malformed"}

\* the list comprehension of load_transactions raises (KeyError in from_dict)
LoadRaises(file) ==
    /\ file.kind = "json"
    /\ \E i \in 1..Len(file.value) : from_dict_raises(file.value[i])

\* [Transaction.from_dict(item) for item in data], run at instant t
LoadedTransactions(file, t) ==
    [i \in 1..Len(file.value) |-> from_dict(file.value[i], t)]

\* a save that writes the newest transaction only (an append, not a rewrite)
Dump_last(ts) == IF ts = <<>> THEN <<>> ELSE <<to_dict(ts[Len(ts)])>>

\* [transaction.to_dict() for transaction in self.transactions]
Dump(ts) == [i \in 1..Len(ts) |-> to_dict(ts[i])]

get_transactions_by_type(ts, transaction_type) ==
    SelectSeq(ts, LAMBDA tr : tr.transaction_type = transaction_type)

RECURSIVE SumIf(_, _)
\* sum(t.amount for t in ts if t.transaction_type == transaction_type)
SumIf(ts, transaction_type) ==
    IF ts = <<>> THEN 0
    ELSE SumIf(SubSeq(ts, 1, Len(ts) - 1), transaction_type)
         + (IF ts[Len(ts)].transaction_type = transaction_type
            THEN ts[Len(ts)].amount ELSE 0)

\* get_balance that adds the expenses
get_balance_plus(ts) ==
    [total_income |-> SumIf(ts, "income"),
     total_expense |-> SumIf(ts, "expense"),
     balance |-> SumIf(ts, "income") + SumIf(ts, "expense")]

get_balance(ts) ==
    [total_income |-> SumIf(ts, "income"),
     total_expense |-> SumIf(ts, "expense"),
     balance |-> SumIf(ts, "income") - SumIf(ts, "expense")]

get_categories(ts) ==
    [income_categories |->
        {ts[i].category : i \in {j \in 1..Len(ts) : ts[j].transaction_type = "income"}},
     expense_categories |->
        {ts[i].category : i \in {j \in 1..Len(ts) : ts[j].transaction_type = "expense"}}]

\* DataManager(): line 13, _ensure_file_exists, load_transactions
DataManagerInit ==
    /\ "data" \notin live
    /\ \E io \in IoOutcomes, n \in now..NumInstants :
          LET created == txFile.kind = "absent"
              file == IF created THEN WriteFile(txFile, <<>>, io) ELSE txFile
              failed == (created /\ io # "ok") \/ LoadRaises(file)
          IN  /\ ~created => io = "ok"
              /\ txFile' = file
              /\ writes' = IF created THEN 1 ELSE 0
              /\ now' = IF failed \/ Unreadable(file) THEN now ELSE n
              /\ transactions' = IF failed \/ Unreadable(file) THEN <<>>
                                  ELSE LoadedTransactions(file, Instant(n))
              /\ live' = IF failed THEN live ELSE live \cup {"data"}
              /\ ret' = IF failed THEN Raised("DataManager", <<>>)
                         ELSE Returned("DataManager", <<>>, "self")
    /\ UNCHANGED <<peer, summary_data, sumFile, settings, setFile>>

load_transactions ==
    /\ "data" \in live
    /\ \E n \in now..NumInstants :
          /\ now' = IF LoadRaises(txFile) \/ Unreadable(txFile) THEN now ELSE n
          /\ transactions' = IF LoadRaises(txFile) THEN transactions
                              ELSE IF Unreadable(txFile) THEN <<>>
                              ELSE LoadedTransactions(txFile, Instant(n))
          /\ ret' = IF LoadRaises(txFile) THEN Raised("load_transactions", <<>>)
                     ELSE Returned("load_transactions", <<>>, transactions')
    /\ writes' = 0
    /\ UNCHANGED <<peer, live, txFile, summary_data, sumFile, settings, setFile>>

save_transactions ==
    /\ "data" \in live
    /\ \E io \in IoOutcomes :
          /\ txFile' = WriteFile(txFile, Dump(transactions), io)
          /\ ret' = Returned("save_transactions", <<>>, io = "ok")
    /\ writes' = 1
    /\ UNCHANGED <<peer, live, now, transactions, summary_data, sumFile, settings, setFile>>

\* an add that reads the file again before it appends
Appended_reread(ts, file, tr) ==
    Append(IF Unreadable(file) \/ LoadRaises(file) THEN <<>>
           ELSE LoadedTransactions(file, Instant(1)), tr)

\* self.transactions.append(transaction): the list as this manager holds it,
\* whatever the file holds by now
Appended(ts, file, tr) == Append(ts, tr)

\* the caller builds Transaction(...) at the current instant and hands it over
add_transaction ==
    /\ "data" \in live
    /\ Len(transactions) < MaxTx
    /\ \E a \in Amounts, ty \in Types, n \in now..NumInstants, io \in IoOutcomes :
          LET tr == Transaction(a, CategoryOf(ty), "note", ty, Instant(n))
          IN  /\ now' = n
              /\ transactions' = Appended(transactions, txFile, tr)
              /\ txFile' = WriteFile(txFile, Dump(transactions'), io)
              /\ ret' = Returned("add_transaction", <<tr>>, io = "ok")
    /\ writes' = 1
    /\ UNCHANGED <<peer, live, summary_data, sumFile, settings, setFile>>

get_all_transactions_call ==
    /\ "data" \in live
    /\ ret' = Returned("get_all_transactions", <<>>, transactions)
    /\ writes' = 0
    /\ UNCHANGED <<peer, live, now, transactions, txFile, summary_data, sumFile,
                   settings, setFile>>

get_transactions_by_type_call ==
    /\ "data" \in live
    /\ \E ty \in Types :
          ret' = Returned("get_transactions_by_type", <<ty>>,
                          get_transactions_by_type(transactions, ty))
    /\ writes' = 0
    /\ UNCHANGED <<peer, live, now, transactions, txFile, summary_data, sumFile,
                   settings, setFile>>

get_balance_call ==
    /\ "data" \in live
    /\ ret' = Returned("get_balance", <<>>, get_balance(transactions))
    /\ writes' = 0
    /\ UNCHANGED <<peer, live, now, transactions, txFile, summary_data, sumFile,
                   settings, setFile>>

get_categories_call ==
    /\ "data" \in live
    /\ ret' = Returned("get_categories", <<>>, get_categories(transactions))
    /\ writes' = 0
    /\ UNCHANGED <<peer, live, now, transactions, txFile, summary_data, sumFile,
                   settings, setFile>>

\* the program starts: no manager yet, the files as an earlier run left them
NoCall == Returned("start", <<>>, "None")

InitTx ==
    /\ live = {}
    /\ now = 1
    /\ transactions = <<>>
    /\ peer = <<>>
    /\ txFile \in InitialTxFiles
    /\ summary_data = <<>>
    /\ sumFile = Absent
    /\ settings = <<>>
    /\ setFile = Absent
    /\ ret = NoCall
    /\ writes = 0

NextTx ==
    \/ DataManagerInit
    \/ load_transactions
    \/ save_transactions
    \/ add_transaction
    \/ get_all_transactions_call
    \/ get_transactions_by_type_call
    \/ get_balance_call
    \/ get_categories_call

SpecTx == InitTx /\ [][NextTx]_vars

----------------------------------------------------------------------------
(* Two DataManager instances on one transactions.json: the operations of   *)
(* the second instance, whose list is peer                                 *)

\* DataManager() of the second instance
PeerInit ==
    /\ "peer" \notin live
    /\ \E io \in IoOutcomes, n \in now..NumInstants :
          LET created == txFile.kind = "absent"
              file == IF created THEN WriteFile(txFile, <<>>, io) ELSE txFile
              failed == (created /\ io # "ok") \/ LoadRaises(file)
          IN  /\ ~created => io = "ok"
              /\ txFile' = file
              /\ writes' = IF created THEN 1 ELSE 0
              /\ now' = IF failed \/ Unreadable(file) THEN now ELSE n
              /\ peer' = IF failed \/ Unreadable(file) THEN <<>>
                          ELSE LoadedTransactions(file, Instant(n))
              /\ live' = IF failed THEN live ELSE live \cup {"peer"}
              /\ ret' = IF failed THEN Raised("peer.DataManager", <<>>)
                         ELSE Returned("peer.DataManager", <<>>, "self")
    /\ UNCHANGED <<transactions, summary_data, sumFile, settings, setFile>>

peer_add_transaction ==
    /\ "peer" \in live
    /\ Len(peer) < MaxTx
    /\ \E a \in Amounts, ty \in Types, n \in now..NumInstants, io \in IoOutcomes :
          LET tr == Transaction(a, CategoryOf(ty), "note", ty, Instant(n))
          IN  /\ now' = n
              /\ peer' = Appended(peer, txFile, tr)
              /\ txFile' = WriteFile(txFile, Dump(peer'), io)
              /\ ret' = Returned("peer.add_transaction", <<tr>>, io = "ok")
    /\ writes' = 1
    /\ UNCHANGED <<live, transactions, summary_data, sumFile, settings, setFile>>

\* transactions.json exists when the two managers open it
InitialSharedTxFiles == {Json(<<>>), Json(<<to_dict(StoredTx)>>)}

InitTwo ==
    /\ live = {}
    /\ now = 1
    /\ transactions = <<>>
    /\ peer = <<>>
    /\ txFile \in InitialSharedTxFiles
    /\ summary_data = <<>>
    /\ sumFile = Absent
    /\ settings = <<>>
    /\ setFile = Absent
    /\ ret = NoCall
    /\ writes = 0

\* the program of the first manager records salaries, the program of the
\* second one records purchases
first_adds_income ==
    /\ add_transaction
    /\ ret'.args[1].transaction_type = "income"
    /\ ret'.args[1].amount = 1000

second_adds_expense ==
    /\ peer_add_transaction
    /\ ret'.args[1].transaction_type = "expense"
    /\ ret'.args[1].amount = 300

NextTwo ==
    \/ DataManagerInit
    \/ PeerInit
    \/ first_adds_income
    \/ second_adds_expense

SpecTwo == InitTwo /\ [][NextTwo]_vars

----------------------------------------------------------------------------
(* summary_manager.py *)

IsLeap(y) == (y % 4 = 0 /\ y % 100 # 0) \/ y % 400 = 0

DaysInMonth(y, m) == IF m = 2 THEN (IF IsLeap(y) THEN 29 ELSE 28)
                     ELSE IF m \in {4, 6, 9, 11} THEN 30 ELSE 31

\* datetime.strptime(s, "%Y-%m-%d %H:%M:%S") matches five separators "-",
\* "-", " ", ":", ":" between six runs of digits, four digits for the year
\* and one or two for every other field, the fields in range.

\* the positions of the characters of s that are no digits
SepPositions(s) == {i \in 1..Len(s) : ~IsDigit(s[i])}

\* 0, the positions of the separators in increasing order, Len(s) + 1
FieldBounds(s, seps) ==
    [k \in 1..7 |->
        IF k = 1 THEN 0
        ELSE IF k = 7 THEN Len(s) + 1
        ELSE CHOOSE i \in seps : Cardinality({j \in seps : j < i}) = k - 2]

\* the runs of digits between the separators
Fields(s, p) == [k \in 1..6 |-> SubSeq(s, p[k] + 1, p[k + 1] - 1)]

WellFormed(s, p, field) ==
    /\ [k \in 1..5 |-> s[p[k + 1]]] = <<"-", "-", " ", ":", ":">>
    /\ \A k \in 1..6 : Len(field[k]) \in (IF k = 1 THEN {4} ELSE {1, 2})

\* year, month, day, hour, minute, second make a datetime
InRange(val) ==
    /\ val[1] >= 1
    /\ val[2] \in 1..12
    /\ val[3] \in 1..DaysInMonth(val[1], val[2])
    /\ val[4] \in 0..23
    /\ val[5] \in 0..59
    /\ val[6] \in 0..59

ValueError == [ok |-> FALSE, Y |-> 0, m |-> 0]

ParsedValues(val) == IF InRange(val) THEN [ok |-> TRUE, Y |-> val[1], m |-> val[2]]
                     ELSE ValueError

ParsedFields(s, p, field) ==
    IF WellFormed(s, p, field) THEN ParsedValues([k \in 1..6 |-> NumVal(field[k])])
    ELSE ValueError

ParsedAt(s, p) == ParsedFields(s, p, Fields(s, p))

\* the parsed date, or ValueError where strptime raises it
strptime(s) ==
    IF Cardinality(SepPositions(s)) = 5
    THEN ParsedAt(s, FieldBounds(s, SepPositions(s)))
    ELSE ValueError

\* strftime("%Y-%m") of the parsed date, or date_string[:7]
MonthOrPrefix(date_string, date_obj) ==
    IF date_obj.ok THEN Pad(date_obj.Y, 4) \o <<"-">> \o Pad(date_obj.m, 2)
    ELSE SubSeq(date_string, 1, IF Len(date_string) < 7 THEN Len(date_string) ELSE 7)

ExtractMonth(date_string) == MonthOrPrefix(date_string, strptime(date_string))

\* dates of the transactions handed to the ledger: as the constructor writes
\* them, written without zero padding, and a bare month
CanonicalDate == FormatDate(Instant(1))
UnpaddedDate ==
    <<"2", "0", "2", "4", "-", "7", "-", "5", " ", "9", ":", "3", "0", ":", "0", "0">>
BareMonthDate == <<"2", "0", "2", "4", "-", "0", "8">>

SummaryDates == {CanonicalDate, UnpaddedDate, BareMonthDate}

\* dates the constructor writes at the instants of the clock, and the date
\* of the transaction of the earlier run
ClockDates == {FormatDate(Instant(i)) : i \in 1..NumInstants} \cup {StoredTx.date}

KnownDates == SummaryDates \cup ClockDates

\* ExtractMonth of the dates that occur, computed once
MonthTable == {<<d, ExtractMonth(d)>> : d \in KnownDates}

_extract_month_from_date(date_string) ==
    IF date_string \in KnownDates
    THEN (CHOOSE p \in MonthTable : p[1] = date_string)[2]
    ELSE ExtractMonth(date_string)

ZeroTriple == [income |-> 0, expense |-> 0, net |-> 0]

\* the body shared by update_summary and the loop of
\* rebuild_summary_from_transactions, with a stale net
Accumulate_stale_net(data, tr) ==
    LET month == _extract_month_from_date(tr.date)
        old == IF month \in DOMAIN data THEN data[month] ELSE ZeroTriple
        new == IF tr.transaction_type = "income"
               THEN [old EXCEPT !.income = @ + tr.amount]
               ELSE IF tr.transaction_type = "expense"
               THEN [old EXCEPT !.expense = @ + tr.amount]
               ELSE old
    IN  [k \in DOMAIN data \cup {month} |-> IF k = month THEN new ELSE data[k]]

\* initialise the month if absent, add the amount to income or expense,
\* recompute net
Accumulate(data, tr) ==
    LET month == _extract_month_from_date(tr.date)
        old == IF month \in DOMAIN data THEN data[month] ELSE ZeroTriple
        added == IF tr.transaction_type = "income"
                 THEN [old EXCEPT !.income = @ + tr.amount]
                 ELSE IF tr.transaction_type = "expense"
                 THEN [old EXCEPT !.expense = @ + tr.amount]
                 ELSE old
        new == [added EXCEPT !.net = added.income - added.expense]
    IN  [k \in DOMAIN data \cup {month} |-> IF k = month THEN new ELSE data[k]]

RECURSIVE Fold(_, _)
\* for transaction in transactions: ..., starting from data
Fold(data, ts) == IF ts = <<>> THEN data
                  ELSE Fold(Accumulate(data, Head(ts)), Tail(ts))

\* a rebuild that forgets to reset summary_data
Rebuilt_keep(data, ts) == Fold(data, ts)

\* self.summary_data = {} followed by the loop
Rebuilt(data, ts) == Fold(<<>>, ts)

\* a delete that drops every month
Removed_all(data, month) == <<>>

\* del self.summary_data[month]
Removed(data, month) == [k \in DOMAIN data \ {month} |-> data[k]]

get_summary(data, month) == IF month \in DOMAIN data THEN data[month] ELSE ZeroTriple

\* character order of the characters that occur in month keys
Ascii == <<" ", "-", "0", "1", "2", "3", "4", "5", "6", "7", "8", "9", ":">>
Rank(c) == CHOOSE i \in 1..Len(Ascii) : Ascii[i] = c

\* a < b as Python compares strings
StrLess(a, b) ==
    \/ Len(a) < Len(b) /\ SubSeq(b, 1, Len(a)) = a
    \/ \E i \in 1..(IF Len(a) < Len(b) THEN Len(a) ELSE Len(b)) :
          /\ SubSeq(a, 1, i - 1) = SubSeq(b, 1, i - 1)
          /\ Rank(a[i]) < Rank(b[i])

\* sorted(self.summary_data.keys())
get_all_months(data) ==
    CHOOSE q \in [1..Cardinality(DOMAIN data) -> DOMAIN data] :
        \A i, j \in DOMAIN q : i < j => StrLess(q[i], q[j])

StartsWith(a, prefix) == Len(prefix) <= Len(a) /\ SubSeq(a, 1, Len(prefix)) = prefix

RECURSIVE SumOver(_, _, _)
SumOver(data, keys, field) ==
    IF keys = {} THEN 0
    ELSE LET k == CHOOSE x \in keys : TRUE
         IN  data[k][field] + SumOver(data, keys \ {k}, field)

get_yearly_summary(data, year) ==
    LET keys == {m \in DOMAIN data : StartsWith(m, year)}
    IN  [income |-> SumOver(data, keys, "income"),
         expense |-> SumOver(data, keys, "expense"),
         net |-> SumOver(data, keys, "income") - SumOver(data, keys, "expense")]

\* json.dump of the mapping: the set of its <<month, [income, expense, net]>> members
DumpSummary(data) == {<<m, <<data[m].income, data[m].expense, data[m].net>>>> : m \in DOMAIN data}

\* json.load of such a file
ParseSummary(members) ==
    [m \in {p[1] : p \in members} |->
        LET p == CHOOSE x \in members : x[1] = m
        IN  [income |-> p[2][1], expense |-> p[2][2], net |-> p[2][3]]]

SummaryTxs ==
    {[Transaction(500, "Salary", "note", "income", Instant(1)) EXCEPT !.date = CanonicalDate],
     [Transaction(200, "Food", "note", "expense", Instant(1)) EXCEPT !.date = UnpaddedDate],
     [Transaction(700, "Food", "note", "expense", Instant(1)) EXCEPT !.date = BareMonthDate]}

Months == {_extract_month_from_date(d) : d \in SummaryDates}
             \cup {<<"2", "0", "2", "3", "-", "1", "2">>}

Years == {<<"2", "0", "2", "4">>, <<"2", "0", "2", "3">>}

InitialSumFiles == {Absent, Malformed, Json({})}

\* SummaryManager(): summary_data = {}, _ensure_file_exists, load_summary
SummaryManagerInit ==
    /\ "summary" \notin live
    /\ \E io \in IoOutcomes :
          LET created == sumFile.kind = "absent"
              file == IF created THEN WriteFile(sumFile, {}, io) ELSE sumFile
              failed == created /\ io # "ok"
          IN  /\ ~created => io = "ok"
              /\ sumFile' = file
              /\ writes' = IF created THEN 1 ELSE 0
              /\ summary_data' = IF failed \/ Unreadable(file) THEN <<>>
                                  ELSE ParseSummary(file.value)
              /\ live' = IF failed THEN live ELSE live \cup {"summary"}
              /\ ret' = IF failed THEN Raised("SummaryManager", <<>>)
                         ELSE Returned("SummaryManager", <<>>, "self")
    /\ UNCHANGED <<peer, now, transactions, txFile, settings, setFile>>

load_summary ==
    /\ "summary" \in live
    /\ summary_data' = IF Unreadable(sumFile) THEN <<>> ELSE ParseSummary(sumFile.value)
    /\ ret' = Returned("load_summary", <<>>, summary_data')
    /\ writes' = 0
    /\ UNCHANGED <<peer, live, now, transactions, txFile, sumFile, settings, setFile>>

update_summary ==
    /\ "summary" \in live
    /\ \E tr \in SummaryTxs, io \in IoOutcomes :
          LET t == get_summary(summary_data, _extract_month_from_date(tr.date))
          IN  /\ t.income + t.expense + tr.amount <= MaxSum
              /\ summary_data' = Accumulate(summary_data, tr)
              /\ sumFile' = WriteFile(sumFile, DumpSummary(summary_data'), io)
              /\ ret' = Returned("update_summary", <<tr>>, io = "ok")
    /\ writes' = 1
    /\ UNCHANGED <<peer, live, now, transactions, txFile, settings, setFile>>

delete_month_summary ==
    /\ "summary" \in live
    /\ \E month \in Months, io \in IoOutcomes :
          IF month \in DOMAIN summary_data
          THEN /\ summary_data' = Removed(summary_data, month)
               /\ sumFile' = WriteFile(sumFile, DumpSummary(summary_data'), io)
               /\ ret' = Returned("delete_month_summary", <<month>>, io = "ok")
               /\ writes' = 1
          ELSE /\ io = "ok"
               /\ ret' = Returned("delete_month_summary", <<month>>, TRUE)
               /\ writes' = 0
               /\ UNCHANGED <<summary_data, sumFile>>
    /\ UNCHANGED <<peer, live, now, transactions, txFile, settings, setFile>>

rebuild_summary_from_transactions ==
    /\ "summary" \in live
    /\ \E k \in 0..MaxRebuild : \E ts \in [1..k -> SummaryTxs], io \in IoOutcomes :
          /\ summary_data' = Rebuilt(summary_data, ts)
          /\ sumFile' = WriteFile(sumFile, DumpSummary(summary_data'), io)
          /\ ret' = Returned("rebuild_summary_from_transactions", <<ts>>, io = "ok")
    /\ writes' = 1
    /\ UNCHANGED <<peer, live, now, transactions, txFile, settings, setFile>>

get_summary_call ==
    /\ "summary" \in live
    /\ \E month \in Months :
          ret' = Returned("get_summary", <<month>>, get_summary(summary_data, month))
    /\ writes' = 0
    /\ UNCHANGED <<peer, live, now, transactions, txFile, summary_data, sumFile,
                   settings, setFile>>

get_all_months_call ==
    /\ "summary" \in live
    /\ ret' = Returned("get_all_months", <<>>, get_all_months(summary_data))
    /\ writes' = 0
    /\ UNCHANGED <<peer, live, now, transactions, txFile, summary_data, sumFile,
                   settings, setFile>>

get_yearly_summary_call ==
    /\ "summary" \in live
    /\ \E year \in Years :
          ret' = Returned("get_yearly_summary", <<year>>,
                          get_yearly_summary(summary_data, year))
    /\ writes' = 0
    /\ UNCHANGED <<peer, live, now, transactions, txFile, summary_data, sumFile,
                   settings, setFile>>

InitSum ==
    /\ live = {}
    /\ now = 1
    /\ transactions = <<>>
    /\ peer = <<>>
    /\ txFile = Absent
    /\ summary_data = <<>>
    /\ sumFile \in InitialSumFiles
    /\ settings = <<>>
    /\ setFile = Absent
    /\ ret = NoCall
    /\ writes = 0

NextSum ==
    \/ SummaryManagerInit
    \/ load_summary
    \/ update_summary
    \/ delete_month_summary
    \/ rebuild_summary_from_transactions
    \/ get_summary_call
    \/ get_all_months_call
    \/ get_yearly_summary_call

SpecSum == InitSum /\ [][NextSum]_vars

----------------------------------------------------------------------------
(* settings_manager.py *)

\* JSON values of settings: an int, a float or a string
JInt(n) == [type |-> "int", num |-> n, text |-> ""]
JFloat(n) == [type |-> "float", num |-> n, text |-> ""]
JStr(x) == [type |-> "str", num |-> 0, text |-> x]

default_settings == [k \in {"monthly_limit"} |-> JInt(0)]

\* valid JSON that is no mapping, such as a bare number
JsonScalar == [kind |-> "json_scalar"]

\* dict.update
Update(base, new) ==
    [k \in DOMAIN base \cup DOMAIN new |-> IF k \in DOMAIN new THEN new[k] ELSE base[k]]

\* a load that takes the file's mapping as it is
Merged_no_defaults(loaded) == loaded

\* self.default_settings.copy() updated with the loaded settings
Merged(loaded) == Update(default_settings, loaded)

\* json.dump of the settings: the set of the <<key, value>> members
DumpSettings(d) == {<<k, d[k]>> : k \in DOMAIN d}

\* json.load of such a file
ParseSettings(members) ==
    [k \in {p[1] : p \in members} |-> (CHOOSE p \in members : p[1] = k)[2]]

\* set_monthly_limit that checks the type only
LimitRejected_type_only(limit) == limit.type \notin {"int", "float"}

\* set_monthly_limit raises ValueError: not a number, or negative
LimitRejected(limit) == limit.type \notin {"int", "float"} \/ limit.num < 0

\* delete_setting that protects nothing
Protected_none(key) == FALSE

\* key in self.default_settings
Protected(key) == key \in DOMAIN default_settings

get_monthly_limit(d) == IF "monthly_limit" \in DOMAIN d THEN d["monthly_limit"] ELSE JInt(0)

get_setting(d, key, default_value) == IF key \in DOMAIN d THEN d[key] ELSE default_value

Keys == {"monthly_limit", "theme"}
Values == {JInt(-5), JFloat(250), JStr("dark")}
Limits == {JFloat(-5), JFloat(250), JInt(100), JStr("abc")}

\* what settings.json can hold when the program starts; the third is a file
\* written before monthly_limit existed
InitialSetFiles ==
    {Absent, Malformed, Json({<<"theme", JStr("dark")>>}),
     Json({<<"monthly_limit", JFloat(250)>>}), JsonScalar}

\* SettingsManager(): _initialize_settings loads the file if it exists and
\* creates it with the defaults otherwise; a failed load does the same
SettingsManagerInit ==
    /\ "settings" \notin live
    /\ \E io \in IoOutcomes :
          IF setFile.kind = "json"
          THEN /\ io = "ok"
               /\ settings' = Merged(ParseSettings(setFile.value))
               /\ writes' = 0
               /\ UNCHANGED setFile
          ELSE /\ settings' = default_settings
               /\ setFile' = WriteFile(setFile, DumpSettings(settings'), io)
               /\ writes' = 1
    /\ live' = live \cup {"settings"}
    /\ ret' = Returned("SettingsManager", <<>>, "self")
    /\ UNCHANGED <<peer, now, transactions, txFile, summary_data, sumFile>>

load_settings ==
    /\ "settings" \in live
    /\ \E io \in IoOutcomes :
          IF setFile.kind = "json"
          THEN /\ io = "ok"
               /\ settings' = Merged(ParseSettings(setFile.value))
               /\ writes' = 0
               /\ ret' = Returned("load_settings", <<>>, TRUE)
               /\ UNCHANGED setFile
          ELSE /\ settings' = default_settings
               /\ setFile' = WriteFile(setFile, DumpSettings(settings'), io)
               /\ writes' = 1
               /\ ret' = Returned("load_settings", <<>>, FALSE)
    /\ UNCHANGED <<peer, live, now, transactions, txFile, summary_data, sumFile>>

save_settings ==
    /\ "settings" \in live
    /\ \E io \in IoOutcomes :
          /\ setFile' = WriteFile(setFile, DumpSettings(settings), io)
          /\ ret' = Returned("save_settings", <<>>, io = "ok")
    /\ writes' = 1
    /\ UNCHANGED <<peer, live, now, transactions, txFile, summary_data, sumFile, settings>>

set_monthly_limit ==
    /\ "settings" \in live
    /\ \E limit \in Limits, io \in IoOutcomes :
          IF LimitRejected(limit)
          THEN /\ io = "ok"
               /\ ret' = Returned("set_monthly_limit", <<limit>>, FALSE)
               /\ writes' = 0
               /\ UNCHANGED <<settings, setFile>>
          ELSE /\ settings' = Update(settings, [k \in {"monthly_limit"} |-> JFloat(limit.num)])
               /\ setFile' = WriteFile(setFile, DumpSettings(settings'), io)
               /\ ret' = Returned("set_monthly_limit", <<limit>>, io = "ok")
               /\ writes' = 1
    /\ UNCHANGED <<peer, live, now, transactions, txFile, summary_data, sumFile>>

set_setting ==
    /\ "settings" \in live
    /\ \E key \in Keys, value \in Values, io \in IoOutcomes :
          /\ settings' = Update(settings, [k \in {key} |-> value])
          /\ setFile' = WriteFile(setFile, DumpSettings(settings'), io)
          /\ ret' = Returned("set_setting", <<key, value>>, io = "ok")
    /\ writes' = 1
    /\ UNCHANGED <<peer, live, now, transactions, txFile, summary_data, sumFile>>

reset_to_defaults ==
    /\ "settings" \in live
    /\ \E io \in IoOutcomes :
          /\ settings' = default_settings
          /\ setFile' = WriteFile(setFile, DumpSettings(settings'), io)
          /\ ret' = Returned("reset_to_defaults", <<>>, io = "ok")
    /\ writes' = 1
    /\ UNCHANGED <<peer, live, now, transactions, txFile, summary_data, sumFile>>

update_settings ==
    /\ "settings" \in live
    /\ \E K \in SUBSET Keys : \E new_settings \in [K -> Values], io \in IoOutcomes :
          /\ settings' = Update(settings, new_settings)
          /\ setFile' = WriteFile(setFile, DumpSettings(settings'), io)
          /\ ret' = Returned("update_settings", <<new_settings>>, io = "ok")
    /\ writes' = 1
    /\ UNCHANGED <<peer, live, now, transactions, txFile, summary_data, sumFile>>

delete_setting ==
    /\ "settings" \in live
    /\ \E key \in Keys, io \in IoOutcomes :
          IF Protected(key)
          THEN /\ io = "ok"
               /\ ret' = Returned("delete_setting", <<key>>, FALSE)
               /\ writes' = 0
               /\ UNCHANGED <<settings, setFile>>
          ELSE IF key \in DOMAIN settings
          THEN /\ settings' = [k \in DOMAIN settings \ {key} |-> settings[k]]
               /\ setFile' = WriteFile(setFile, DumpSettings(settings'), io)
               /\ ret' = Returned("delete_setting", <<key>>, io = "ok")
               /\ writes' = 1
          ELSE /\ io = "ok"
               /\ ret' = Returned("delete_setting", <<key>>, TRUE)
               /\ writes' = 0
               /\ UNCHANGED <<settings, setFile>>
    /\ UNCHANGED <<peer, live, now, transactions, txFile, summary_data, sumFile>>

get_monthly_limit_call ==
    /\ "settings" \in live
    /\ ret' = Returned("get_monthly_limit", <<>>, get_monthly_limit(settings))
    /\ writes' = 0
    /\ UNCHANGED <<peer, live, now, transactions, txFile, summary_data, sumFile,
                   settings, setFile>>

get_setting_call ==
    /\ "settings" \in live
    /\ \E key \in Keys :
          ret' = Returned("get_setting", <<key>>, get_setting(settings, key, JStr("None")))
    /\ writes' = 0
    /\ UNCHANGED <<peer, live, now, transactions, txFile, summary_data, sumFile,
                   settings, setFile>>

get_all_settings_call ==
    /\ "settings" \in live
    /\ ret' = Returned("get_all_settings", <<>>, settings)
    /\ writes' = 0
    /\ UNCHANGED <<peer, live, now, transactions, txFile, summary_data, sumFile,
                   settings, setFile>>

InitSet ==
    /\ live = {}
    /\ now = 1
    /\ transactions = <<>>
    /\ peer = <<>>
    /\ txFile = Absent
    /\ summary_data = <<>>
    /\ sumFile = Absent
    /\ settings = <<>>
    /\ setFile \in InitialSetFiles
    /\ ret = NoCall
    /\ writes = 0

NextSet ==
    \/ SettingsManagerInit
    \/ load_settings
    \/ save_settings
    \/ set_monthly_limit
    \/ set_setting
    \/ reset_to_defaults
    \/ update_settings
    \/ delete_setting
    \/ get_monthly_limit_call
    \/ get_setting_call
    \/ get_all_settings_call

SpecSet == InitSet /\ [][NextSet]_vars

----------------------------------------------------------------------------
(* main.py: the application records a transaction in the transaction store *)
(* and then in the summary ledger                                          *)

\* an update_summary that runs when the add failed
Recorded_inverted(data, tr, added) == IF added THEN data ELSE Accumulate(data, tr)

\* if self.data_manager.add_transaction(transaction):
\*     summary_manager.update_summary(transaction)
Recorded(data, tr, added) == IF added THEN Accumulate(data, tr) ELSE data

\* datetime.now().strftime("%Y-%m")
current_month(t) == Pad(t.Y, 4) \o <<"-">> \o Pad(t.m, 2)

\* limit > 0 and monthly_summary["expense"] > limit
LimitExceeded(data, d, t) ==
    /\ get_monthly_limit(d).num > 0
    /\ get_summary(data, current_month(t)).expense > get_monthly_limit(d).num

AppLive == {"summary", "settings", "data"}

\* main.py line 6: summary_manager = SummaryManager()
ImportSummaryManager == live = {} /\ SummaryManagerInit

\* main.py line 8: settings_manager = SettingsManager()
ImportSettingsManager == live = {"summary"} /\ SettingsManagerInit

\* PersonalFinanceApp(): self.data_manager = DataManager()
PersonalFinanceAppInit == live = {"summary", "settings"} /\ DataManagerInit

\* add_income and add_expense: get_transaction_input builds the transaction,
\* add_transaction stores it, update_summary follows if the add succeeded;
\* add_expense then compares the month's expense with the limit
AddRecord(transaction_type) ==
    /\ live = AppLive
    /\ Len(transactions) < MaxTx
    /\ \E a \in Amounts, n \in now..NumInstants, io \in IoOutcomes, io2 \in IoOutcomes :
          LET tr == Transaction(a, CategoryOf(transaction_type), "note",
                                transaction_type, Instant(n))
              added == io = "ok"
          IN  /\ ~added => io2 = "ok"
              /\ now' = n
              /\ transactions' = Append(transactions, tr)
              /\ txFile' = WriteFile(txFile, Dump(transactions'), io)
              /\ summary_data' = Recorded(summary_data, tr, added)
              /\ sumFile' = IF added
                            THEN WriteFile(sumFile, DumpSummary(summary_data'), io2)
                            ELSE sumFile
              /\ writes' = IF added THEN 2 ELSE 1
              /\ ret' = Returned(IF transaction_type = "income"
                                 THEN "add_income" ELSE "add_expense",
                                 <<tr>>,
                                 [added |-> added,
                                  warned |-> /\ transaction_type = "expense"
                                             /\ LimitExceeded(summary_data', settings,
                                                              Instant(n))])
    /\ UNCHANGED <<peer, live, settings, setFile>>

add_income == AddRecord("income")

add_expense == AddRecord("expense")

InitialAppTxFiles == {Absent, Json(<<>>), Json(<<to_dict(StoredTx)>>)}

\* no settings file yet, or one with a limit set by an earlier run
InitialAppSetFiles == {Absent, Json({<<"monthly_limit", JFloat(250)>>})}

InitApp ==
    /\ live = {}
    /\ now = 1
    /\ transactions = <<>>
    /\ peer = <<>>
    /\ txFile \in InitialAppTxFiles
    /\ summary_data = <<>>
    /\ sumFile \in {Absent, Json({})}
    /\ settings = <<>>
    /\ setFile \in InitialAppSetFiles
    /\ ret = NoCall
    /\ writes = 0

NextApp ==
    \/ ImportSummaryManager
    \/ ImportSettingsManager
    \/ PersonalFinanceAppInit
    \/ add_income
    \/ add_expense

SpecApp == InitApp /\ [][NextApp]_vars

----------------------------------------------------------------------------
(* A program that uses one of the three stores, the files of the other two *)
(* not existing.  No operation of a store reads or writes the state of     *)
(* another, so that a step of one store is the same step whatever the      *)
(* other two hold.                                                         *)

DataClient ==
    /\ sumFile = Absent /\ setFile = Absent
    /\ NextTx
    /\ live' \subseteq {"data"}

SummaryClient ==
    /\ txFile = Absent /\ setFile = Absent
    /\ NextSum
    /\ live' \subseteq {"summary"}

SettingsClient ==
    /\ txFile = Absent /\ sumFile = Absent
    /\ NextSet
    /\ live' \subseteq {"settings"}

InitStores == InitTx \/ InitSum \/ InitSet

NextStores == DataClient \/ SummaryClient \/ SettingsClient

SpecStores == InitStores /\ [][NextStores]_vars

----------------------------------------------------------------------------
(* Properties of the transaction store *)

RECURSIVE SumAmounts(_)
SumAmounts(ts) == IF ts = <<>> THEN 0 ELSE Head(ts).amount + SumAmounts(Tail(ts))

\* C1: the balance returned by get_balance is total income minus total
\* expense, and the two totals are the sums of the amounts of
\* get_transactions_by_type("income") and get_transactions_by_type("expense").
C1_BalanceIsIncomeMinusExpense ==
    ret.op = "get_balance" =>
        /\ ret.val.balance = ret.val.total_income - ret.val.total_expense
        /\ ret.val.total_income =
               SumAmounts(get_transactions_by_type(transactions, "income"))
        /\ ret.val.total_expense =
               SumAmounts(get_transactions_by_type(transactions, "expense"))

C1_Witness ==
    /\ ret.op = "get_balance"
    /\ Len(transactions) = 2
    /\ ret.val.total_income = 1000
    /\ ret.val.total_expense = 300

\* the file holds exactly the sequence ts: a load would read it back
Persisted(file, ts) ==
    /\ file.kind = "json"
    /\ ~LoadRaises(file)
    /\ LoadedTransactions(file, Instant(1)) = ts

\* C3: add appends t in memory whether or not the save succeeds, makes one
\* write attempt, returns the outcome of the save, and a successful add
\* leaves the file equal to the whole in-memory sequence, the transaction of
\* an immediately preceding failed add included.
C3_AddStep ==
    ret'.op = "add_transaction" =>
        /\ transactions' = Append(transactions, ret'.args[1])
        /\ writes' = 1
        /\ ret'.val = Persisted(txFile', transactions')
        /\ (ret.op = "add_transaction" /\ ret.val = FALSE /\ ret'.val = TRUE) =>
               /\ transactions'[Len(transactions') - 1] = ret.args[1]
               /\ Persisted(txFile', transactions')

C3_FailedSaveKeepsItemUntilNextSave == [][C3_AddStep]_vars

C3_Witness ==
    /\ ret.op = "add_transaction"
    /\ ret.val = FALSE
    /\ transactions = <<ret.args[1]>>
    /\ txFile = Malformed

\* C4: a load that follows a successful save of a non-empty sequence returns
\* a sequence of the same length whose elements have the id, amount,
\* category, description, transaction_type and date of the saved ones.
C4_LoadAfterSave ==
    (/\ ret.op = "save_transactions" /\ ret.val = TRUE
     /\ transactions # <<>>
     /\ ret'.op = "load_transactions") =>
        /\ ~ret'.raised
        /\ ret'.val = transactions'
        /\ Len(transactions') = Len(transactions)
        /\ \A i \in 1..Len(transactions) :
              /\ transactions'[i].id = transactions[i].id
              /\ transactions'[i].amount = transactions[i].amount
              /\ transactions'[i].category = transactions[i].category
              /\ transactions'[i].description = transactions[i].description
              /\ transactions'[i].transaction_type = transactions[i].transaction_type
              /\ transactions'[i].date = transactions[i].date

C4_SaveLoadRoundTrip == [][C4_LoadAfterSave]_vars

\* a load at an instant later than the one the loaded transactions were made at
C4_Witness ==
    /\ ret.op = "load_transactions"
    /\ Len(transactions) = 2
    /\ txFile = Json(Dump(transactions))
    /\ \A i \in 1..2 : transactions[i].date # FormatDate(Instant(now))

\* C10: load_transactions, called directly or by the constructor, returns
\* for every content of the file, and leaves the in-memory sequence empty
\* when the content is not a sequence of transactions.
C10_LoadNeverRaises ==
    (ret.op = "load_transactions" \/ (ret.op = "DataManager" /\ writes = 0)) =>
        /\ ~ret.raised
        /\ (Unreadable(txFile) \/ LoadRaises(txFile)) => transactions = <<>>

----------------------------------------------------------------------------
(* Properties of the summary ledger *)

NetConsistent(t) == t.net = t.income - t.expense

\* C2: every month of the ledger has net = income - expense, and so has the
\* triple get_summary returns for a month, present or absent, whether the
\* saves of update, delete and rebuild succeeded or failed.
C2_NetIsIncomeMinusExpense ==
    /\ \A m \in DOMAIN summary_data : NetConsistent(summary_data[m])
    /\ \A m \in Months : NetConsistent(get_summary(summary_data, m))
    /\ ret.op = "get_summary" => NetConsistent(ret.val)

C2_Witness ==
    /\ ret.op = "update_summary"
    /\ ret.val = FALSE
    /\ sumFile = Malformed
    /\ \E m \in DOMAIN summary_data :
          summary_data[m] = [income |-> 500, expense |-> 200, net |-> 300]

RECURSIVE SumAt(_, _)
SumAt(ts, idx) ==
    IF idx = {} THEN 0
    ELSE LET i == CHOOSE x \in idx : TRUE
         IN  ts[i].amount + SumAt(ts, idx \ {i})

\* the per-month aggregation of ts: for each month key of ts, the sum of the
\* income amounts, the sum of the expense amounts and their difference
MonthFold(ts) ==
    LET At_(m, ty) == {i \in 1..Len(ts) :
                         /\ _extract_month_from_date(ts[i].date) = m
                         /\ ts[i].transaction_type = ty}
    IN  [m \in {_extract_month_from_date(ts[i].date) : i \in 1..Len(ts)} |->
            [income |-> SumAt(ts, At_(m, "income")),
             expense |-> SumAt(ts, At_(m, "expense")),
             net |-> SumAt(ts, At_(m, "income")) - SumAt(ts, At_(m, "expense"))]]

\* C5: after rebuild_summary_from_transactions(ts) the ledger is the
\* per-month aggregation of ts alone, whatever it held before; the result
\* being a function of ts, a rebuild repeated with the same ts leaves the
\* same mapping.
C5_RebuildIsFoldOfInput ==
    ret.op = "rebuild_summary_from_transactions" =>
        summary_data = MonthFold(ret.args[1])

\* a rebuild from two transactions whose dates, written differently, fall in
\* one month
C5_Witness ==
    /\ ret.op = "rebuild_summary_from_transactions"
    /\ Len(ret.args[1]) = 2
    /\ ret.args[1][1].date # ret.args[1][2].date
    /\ DOMAIN summary_data = {_extract_month_from_date(CanonicalDate)}
    /\ summary_data[_extract_month_from_date(CanonicalDate)] =
           [income |-> 500, expense |-> 200, net |-> 300]

\* delete_month_summary(m) has removed the entry of m and no other
RemovedOnly(m) ==
    /\ DOMAIN summary_data' = DOMAIN summary_data \ {m}
    /\ \A k \in DOMAIN summary_data' : summary_data'[k] = summary_data[k]
    /\ get_summary(summary_data', m) = ZeroTriple

\* a get_summary(m) that follows delete_month_summary(m) returns zeros
ZeroAfterDelete ==
    (/\ ret.op = "delete_month_summary"
     /\ ret'.op = "get_summary"
     /\ ret'.args = ret.args) => ret'.val = ZeroTriple

\* the statement of C12 as written: the delete of a present month always
\* persists the mapping and returns success
C12_DeleteAlwaysPersistsStep ==
    /\ ret'.op = "delete_month_summary" =>
          IF ret'.args[1] \in DOMAIN summary_data
          THEN /\ RemovedOnly(ret'.args[1])
               /\ sumFile' = Json(DumpSummary(summary_data'))
               /\ ret'.val = TRUE
          ELSE /\ ret'.val = TRUE
               /\ summary_data' = summary_data
    /\ ZeroAfterDelete

C12_DeleteMonthAlwaysPersists == [][C12_DeleteAlwaysPersistsStep]_vars

\* C12: delete_month_summary(m) of a present month removes the entry of m
\* alone, after which get_summary(m) returns zeros, and returns the outcome
\* of its one save: True with the file holding the mapping, or False with the
\* file as it was or truncated and the entry removed in memory all the same;
\* of an absent month it returns True and leaves mapping and file unchanged.
C12_DeleteStep ==
    /\ ret'.op = "delete_month_summary" =>
          IF ret'.args[1] \in DOMAIN summary_data
          THEN /\ RemovedOnly(ret'.args[1])
               /\ writes' = 1
               /\ ret'.val \in BOOLEAN
               /\ ret'.val => sumFile' = Json(DumpSummary(summary_data'))
               /\ ~ret'.val => sumFile' \in {sumFile, Malformed}
          ELSE /\ ret'.val = TRUE
               /\ summary_data' = summary_data
               /\ sumFile' = sumFile
    /\ ZeroAfterDelete

C12_DeleteMonth == [][C12_DeleteStep]_vars

\* one of two months has been deleted and the other is in memory and on file
C12_Witness ==
    /\ ret.op = "delete_month_summary"
    /\ ret.val = TRUE
    /\ writes = 1
    /\ ret.args[1] \notin DOMAIN summary_data
    /\ Cardinality(DOMAIN summary_data) = 1
    /\ \E m \in DOMAIN summary_data : summary_data[m].expense = 700
    /\ sumFile = Json(DumpSummary(summary_data))

----------------------------------------------------------------------------
(* Properties of the settings store *)

\* C6: set_monthly_limit with a negative number returns False, leaves the
\* monthly limit and every other setting as they were and does not open the
\* settings file for writing.
C6_NegativeLimitStep ==
    (/\ ret'.op = "set_monthly_limit"
     /\ ret'.args[1].type \in {"int", "float"}
     /\ ret'.args[1].num < 0) =>
        /\ ret'.val = FALSE
        /\ get_monthly_limit(settings') = get_monthly_limit(settings)
        /\ settings' = settings
        /\ setFile' = setFile
        /\ writes' = 0

C6_NegativeLimitRejected == [][C6_NegativeLimitStep]_vars

C6_Witness ==
    /\ ret.op = "set_monthly_limit"
    /\ ret.args[1] = JFloat(-5)
    /\ ret.val = FALSE
    /\ settings = [k \in Keys |-> IF k = "theme" THEN JStr("dark") ELSE JFloat(250)]

\* C7: delete_setting of the protected key monthly_limit returns False and
\* changes nothing; of an absent unprotected key returns True and changes
\* nothing; of a present unprotected key removes that key alone and rewrites
\* the file once, returning the outcome of the save.
C7_DeleteStep ==
    ret'.op = "delete_setting" =>
        LET key == ret'.args[1]
        IN  IF key = "monthly_limit"
            THEN /\ ret'.val = FALSE
                 /\ settings' = settings /\ setFile' = setFile /\ writes' = 0
            ELSE IF key \notin DOMAIN settings
            THEN /\ ret'.val = TRUE
                 /\ settings' = settings /\ setFile' = setFile /\ writes' = 0
            ELSE /\ DOMAIN settings' = DOMAIN settings \ {key}
                 /\ \A k \in DOMAIN settings' : settings'[k] = settings[k]
                 /\ writes' = 1
                 /\ ret'.val = TRUE => setFile' = Json(DumpSettings(settings'))
                 /\ ret'.val = FALSE => setFile' \in {setFile, Malformed}

C7_DeleteSetting == [][C7_DeleteStep]_vars

\* a present key has been removed and the file rewritten
C7_Witness ==
    /\ ret.op = "delete_setting"
    /\ ret.args[1] = "theme"
    /\ ret.val = TRUE
    /\ writes = 1
    /\ DOMAIN settings = {"monthly_limit"}
    /\ setFile = Json(DumpSettings(settings))

\* C8: once the settings manager is constructed, monthly_limit is a key of
\* the in-memory settings.
C8_MonthlyLimitPresent ==
    "settings" \in live => "monthly_limit" \in DOMAIN settings

\* loaded from a file that has no monthly_limit
C8_Witness ==
    /\ ret.op \in {"SettingsManager", "load_settings"}
    /\ setFile = Json({<<"theme", JStr("dark")>>})
    /\ DOMAIN settings = {"monthly_limit", "theme"}

\* C9: the value stored under monthly_limit is a non-negative number.
C9_MonthlyLimitNonNegative ==
    "settings" \in live =>
        /\ get_monthly_limit(settings).type \in {"int", "float"}
        /\ get_monthly_limit(settings).num >= 0

----------------------------------------------------------------------------
(* Properties of the three stores *)

MutationOps == {"add_transaction", "update_summary", "delete_month_summary",
                "rebuild_summary_from_transactions", "set_setting",
                "set_monthly_limit", "delete_setting", "update_settings",
                "reset_to_defaults"}

QueryOps == {"get_all_transactions", "get_transactions_by_type", "get_balance",
             "get_categories", "get_summary", "get_all_months",
             "get_yearly_summary", "get_setting", "get_monthly_limit"}

memory == <<transactions, summary_data, settings>>
files == <<txFile, sumFile, setFile>>

QueryStep ==
    ret'.op \in QueryOps =>
        /\ ~ret'.raised
        /\ writes' = 0
        /\ UNCHANGED <<memory, files>>

\* the statement of C11 as written: one rewrite in every call of a mutation
C11_OneRewriteStep ==
    /\ ret'.op \in MutationOps => (writes' = 1 /\ ret'.val \in BOOLEAN)
    /\ QueryStep

C11_ExactlyOneRewritePerMutation == [][C11_OneRewriteStep]_vars

\* the calls of a mutation that have nothing to do or are refused
NothingToDo ==
    \/ ret'.op = "delete_month_summary" /\ ret'.args[1] \notin DOMAIN summary_data
    \/ ret'.op = "delete_setting"
          /\ (ret'.args[1] = "monthly_limit" \/ ret'.args[1] \notin DOMAIN settings)
    \/ ret'.op = "set_monthly_limit"
          /\ (ret'.args[1].type \notin {"int", "float"} \/ ret'.args[1].num < 0)

\* the file of the store the call belongs to holds the store's memory
BackingFileWritten ==
    IF ret'.op = "add_transaction"
    THEN txFile' = Json(Dump(transactions')) /\ UNCHANGED <<sumFile, setFile>>
    ELSE IF ret'.op \in {"update_summary", "delete_month_summary",
                         "rebuild_summary_from_transactions"}
    THEN sumFile' = Json(DumpSummary(summary_data')) /\ UNCHANGED <<txFile, setFile>>
    ELSE setFile' = Json(DumpSettings(settings')) /\ UNCHANGED <<txFile, sumFile>>

\* C11: every mutation returns a success indicator and opens its backing
\* file for writing at most once: exactly once, and a returned success means
\* the file holds the store's memory, except that delete_month_summary of an
\* absent month, delete_setting of a protected or absent key and
\* set_monthly_limit of a rejected limit write nothing and change nothing;
\* every query writes no file and leaves memory unchanged.
C11_MutationStep ==
    /\ ret'.op \in MutationOps =>
          /\ ~ret'.raised
          /\ ret'.val \in BOOLEAN
          /\ IF NothingToDo
             THEN writes' = 0 /\ UNCHANGED <<memory, files>>
             ELSE writes' = 1 /\ (ret'.val => BackingFileWritten)
    /\ QueryStep

C11_AtMostOneRewritePerMutation == [][C11_MutationStep]_vars

\* a mutation that returned success without writing, the ledger not empty
C11_Witness ==
    /\ ret.op = "delete_month_summary"
    /\ ret.val = TRUE
    /\ writes = 0
    /\ summary_data # <<>>
    /\ ret.args[1] \notin DOMAIN summary_data

----------------------------------------------------------------------------
(* Properties of the application *)

\* the in-memory ledger is what a rebuild from the store's transactions
\* gives: for every month the sums of that month's incomes and expenses
InSync(data, ts) ==
    /\ data = Rebuilt(data, ts)
    /\ data = MonthFold(ts)

\* C13: if the ledger is in step with the store, as it is when both start
\* empty, and the application records a transaction whose add succeeds, the
\* ledger is in step with the store again, whether or not the save of the
\* update succeeded.
C13_RecordStep ==
    (/\ ret'.op \in {"add_income", "add_expense"}
     /\ ret'.val.added
     /\ InSync(summary_data, transactions)) =>
        /\ transactions' = Append(transactions, ret'.args[1])
        /\ InSync(summary_data', transactions')

C13_LedgerFollowsStore == [][C13_RecordStep]_vars

\* from an empty store and an empty ledger, two records in one month, the
\* second one's update not saved
C13_Witness ==
    /\ ret.op = "add_expense"
    /\ ret.val.added
    /\ Len(transactions) = 2
    /\ transactions[1].transaction_type = "income"
    /\ Cardinality(DOMAIN summary_data) = 1
    /\ InSync(summary_data, transactions)
    /\ sumFile # Json(DumpSummary(summary_data))

----------------------------------------------------------------------------
(* Properties of two managers on one file *)

Holds(ts, tr) == \E i \in 1..Len(ts) : ts[i] = tr

FileHolds(file, tr) ==
    /\ file.kind = "json"
    /\ \E i \in 1..Len(file.value) : file.value[i] = to_dict(tr)

\* C14: the first manager has added a transaction and saved it; the second
\* manager, which loaded before that and so does not hold it, adds another
\* one and saves: the file is then the second manager's list and the first
\* manager's transaction, still in the first manager's memory, is not in it.
C14_LostUpdateStep ==
    (/\ ret.op = "add_transaction" /\ ret.val = TRUE
     /\ ret'.op = "peer.add_transaction" /\ ret'.val = TRUE
     /\ ret'.args[1] # ret.args[1]
     /\ ~Holds(peer, ret.args[1])) =>
        /\ FileHolds(txFile, ret.args[1])
        /\ txFile' = Json(Dump(peer'))
        /\ Persisted(txFile', peer')
        /\ ~FileHolds(txFile', ret.args[1])
        /\ Holds(transactions', ret.args[1])

C14_LastWriterWins == [][C14_LostUpdateStep]_vars

\* both managers loaded the stored transaction, each added one of its own,
\* and the file is the second manager's list
C14_Witness ==
    /\ ret.op = "peer.add_transaction"
    /\ ret.val = TRUE
    /\ Len(transactions) = 2 /\ Len(peer) = 2
    /\ transactions[1] = peer[1]
    /\ transactions[2].transaction_type = "income"
    /\ txFile = Json(Dump(peer))
    /\ ~FileHolds(txFile, transactions[2])

----------------------------------------------------------------------------
(* The transactions file *)

\* the file holds a well-formed sequence of transaction objects
ValidTxFile(file) == file.kind = "json" /\ ~LoadRaises(file)

\* C15: no operation of the transaction store, an add whose save fails
\* partway included, turns a transactions file that holds a well-formed
\* sequence of transaction objects into one that does not.
C15_FileStaysValidStep == ValidTxFile(txFile) => ValidTxFile(txFile')

C15_FileAlwaysValid == [][C15_FileStaysValidStep]_vars

====
